---- MODULE Spec2Model ----
(***************************************************************************)
(* dioxus-helmet (src/src/lib.rs): the Helmet component places its         *)
(* declared children in the document head, once per identity, and its      *)
(* props' Drop removes them again.                                         *)
(*                                                                         *)
(* State: the head's child nodes, the process-wide INIT_CACHE (a Vec of    *)
(* hashes behind a Mutex), the props of every component instance, and,     *)
(* for the interleaved specification, each pass's position.                *)
(*                                                                         *)
(* Option<T> is a sequence of length 0 (None) or 1 (Some).                 *)
(***************************************************************************)
EXTENDS Integers, Sequences, FiniteSets, TLC

\* ------------------------------------------------------------- bounds
\* Number of component instances.
NComp == 2
\* Seeds are 0..MaxSeed.
MaxSeed == 1
\* Width of the hasher's state in bits (the code's is a machine word).
HashBits == 8
\* Render passes with changed children the host runs in one behaviour.
MaxRerender == 1
\* Passes that find the mutex held in one behaviour.
MaxContended == 1

Comps == 1..NComp
Seeds == 0..MaxSeed
Pow2(n) == 2 ^ n
HashMod == Pow2(HashBits)

None == <<>>
Some(x) == <<x>>

\* ---------------------------------------------------------- the state
VARIABLES
  cap,         \* what web_sys can reach: "nowindow", "nodocument", "nohead", "ok"
  head,        \* the child nodes of document.head, in document order
  init_cache,  \* INIT_CACHE: Vec<u64>
  lock,        \* the holder of INIT_CACHE's mutex, 0 when free
  props,       \* HelmetProps of every component instance
  pc,          \* where each instance's pass stands: "idle", "mount", "push", "drop"
  todo,        \* the element maps a pass in its loop has still to visit
  moved,       \* history: head nodes a pass in its loop has added less removed
  last,        \* history: the pass that ran last, how it ended, and the identities
               \*   of the children it dropped or replaced
  noUnmount,   \* history: no drop pass has run its loop so far
  rerenders,   \* history: render passes with changed children so far
  contended,   \* history: passes abandoned at try_lock so far
  failed       \* history: cached hashes whose element could not be created

vars == <<cap, head, init_cache, lock, props, pc, todo, moved, last, noUnmount, rerenders, contended, failed>>

\* ------------------------------------------------- the declared trees
\* TemplateNode and TemplateAttribute values (dioxus), as the extractor
\* matches them.
Text(t) == [kind |-> "Text", text |-> t]
Elem(t, a, c) == [kind |-> "Element", tag |-> t, attrs |-> a, children |-> c]
DynNode == [kind |-> "Dynamic"]
Static(n, v) == [kind |-> "Static", name |-> n, value |-> v]
\* A Dynamic attribute, with the name and the value it has at render time.
DynAttr(n, v) == [kind |-> "Dynamic", name |-> n, value |-> v]

\* The children a component may be given: None, or Some(template roots).
Catalogue ==
  { None,
    Some(<< Elem("bad tag", <<>>, <<>>),
            Elem("link", <<Static("rel", "icon"), DynAttr("href", "a.ico")>>, <<>>) >>),
    Some(<< Elem("title", <<Static("data-helmet-id", "7")>>, <<Text("Helmet")>>) >>),
    Some(<< Text("loose"),
            Elem("style", <<>>, <<Elem("span", <<>>, <<Text("css")>>)>>),
            DynNode,
            Elem("link", <<Static("rel", "icon"), DynAttr("href", "b.ico")>>, <<>>) >>) }

\* The title values instance c may be given.
TitleTexts == <<"First", "Second", "Third", "Fourth">>
Titles(c) == { None, Some(TitleTexts[c]) }

\* ------------------------------------------------------ the extractor
\* Variant: a Dynamic attribute is kept, with its value at render time.
RECURSIVE AllAttrs(_)
AllAttrs(attrs) ==
  IF attrs = <<>> THEN <<>>
  ELSE << <<Head(attrs).name, Head(attrs).value>> >> \o AllAttrs(Tail(attrs))
\* Lines 202-208: the Static attributes, in order.
RECURSIVE StaticAttrs(_)
StaticAttrs(attrs) ==
  IF attrs = <<>> THEN <<>>
  ELSE LET a == Head(attrs)
       IN  (IF a.kind = "Static" THEN << <<a.name, a.value>> >> ELSE <<>>)
             \o StaticAttrs(Tail(attrs))

InnerHtml(children) ==
  IF children = <<>> THEN None
  ELSE LET f == Head(children)
       IN  IF f.kind = "Text" THEN Some(f.text)
           ELSE IF f.kind = "Element" /\ Len(f.children) = 1
                THEN (IF Head(f.children).kind = "Text"
                      THEN Some(Head(f.children).text) ELSE None)
                ELSE None

ElementMap(child) ==
  [tag |-> child.tag,
   attributes |-> StaticAttrs(child.attrs),
   inner_html |-> InnerHtml(child.children)]

RECURSIVE RootsToMaps(_)
RootsToMaps(roots) ==
  IF roots = <<>> THEN <<>>
  ELSE LET child == Head(roots)
       IN  (IF child.kind = "Element" THEN <<ElementMap(child)>> ELSE <<>>)
             \o RootsToMaps(Tail(roots))

\* Option<Vec<ElementMap>>
extract_element_maps(children) ==
  IF children = None THEN None ELSE Some(RootsToMaps(children[1]))

\* --------------------------------------------------------- the hasher
\* The low bits of FxHasher's multiplier 0x517cc1b727220a95.
FxSeedLow == 2709
FxK == FxSeedLow % HashMod

RECURSIVE BitXor(_, _)
BitXor(a, b) ==
  IF a = 0 THEN b
  ELSE IF b = 0 THEN a
  ELSE ((a + b) % 2) + 2 * BitXor(a \div 2, b \div 2)

RotL5(h) == ((h * 32) % HashMod) + (h \div Pow2(HashBits - 5))

\* FxHasher::add_to_hash, tabulated over the hasher's states and the words.
FxTable ==
  [h \in 0..(HashMod - 1) |->
     [w \in 0..(HashMod - 1) |-> (BitXor(RotL5(h), w) * FxK) % HashMod]]
FxAdd(h, w) == FxTable[h][w % HashMod]

\* The bytes of a string, as one word.
StrCode(s) ==
  CASE s = "link" -> 1 [] s = "title" -> 2 [] s = "style" -> 3 [] s = "meta" -> 4
    [] s = "bad tag" -> 5 [] s = "rel" -> 6 [] s = "icon" -> 7
    [] s = "data-helmet-id" -> 8 [] s = "7" -> 9 [] s = "Helmet" -> 10
    [] s = "css" -> 11 [] s = "span" -> 12
    [] s = "href" -> 14 [] s = "a.ico" -> 15 [] s = "b.ico" -> 16
    [] OTHER -> 13

\* impl Hash for str: the bytes, then 0xff.
HashStr(h, s) == FxAdd(FxAdd(h, StrCode(s)), 255)

RECURSIVE HashAttrs(_, _)
HashAttrs(h, attrs) ==
  IF attrs = <<>> THEN h
  ELSE HashAttrs(HashStr(HashStr(h, Head(attrs)[1]), Head(attrs)[2]), Tail(attrs))

\* derive(Hash) for ElementMap: tag, the Vec (length, then the pairs), the
\* Option (discriminant, then the value).
HashElementMap(h, em) ==
  LET h1 == HashStr(h, em.tag)
      h2 == HashAttrs(FxAdd(h1, Len(em.attributes)), em.attributes)
  IN  IF em.inner_html = None THEN FxAdd(h2, 0)
      ELSE HashStr(FxAdd(h2, 1), em.inner_html[1])

\* Variant: the seed is not hashed.
HashSeedIgnored(seed, em) == HashElementMap(0, em)
\* The identity of a descriptor under a seed (lines 92-95 and 128-131).
Hash(seed, em) == HashElementMap(FxAdd(0, seed), em)

\* ------------------------------------------------------------ the DOM
\* A node of the head: its tag, its attributes in order, its inner HTML.
TitleTag == "title"
StampAttr == "data-helmet-id"

RECURSIVE SetAttr(_, _, _)
SetAttr(attrs, name, value) ==
  IF attrs = <<>> THEN << <<name, value>> >>
  ELSE IF Head(attrs)[1] = name THEN << <<name, value>> >> \o Tail(attrs)
  ELSE <<Head(attrs)>> \o SetAttr(Tail(attrs), name, value)

RECURSIVE SetAttrs(_, _)
SetAttrs(attrs, pairs) ==
  IF pairs = <<>> THEN attrs
  ELSE SetAttrs(SetAttr(attrs, Head(pairs)[1], Head(pairs)[2]), Tail(pairs))

RECURSIVE GetAttr(_, _)
GetAttr(attrs, name) ==
  IF attrs = <<>> THEN None
  ELSE IF Head(attrs)[1] = name THEN Some(Head(attrs)[2])
  ELSE GetAttr(Tail(attrs), name)

\* Document::create_element fails on a name that is no valid element name.
CreateElementOk(tag) == tag # "bad tag"

\* Variant: the stamp is set before the descriptor's attributes.
try_into_elementStampFirst(em, hash) ==
  IF CreateElementOk(em.tag)
  THEN Some([tag |-> em.tag,
             attrs |-> SetAttrs(SetAttr(<<>>, StampAttr, ToString(hash)), em.attributes),
             inner |-> em.inner_html])
  ELSE None
\* ElementMap::try_into_element: Option<Element>
try_into_element(em, hash) ==
  IF CreateElementOk(em.tag)
  THEN Some([tag |-> em.tag,
             attrs |-> SetAttr(SetAttrs(<<>>, em.attributes), StampAttr, ToString(hash)),
             inner |-> em.inner_html])
  ELSE None

\* The nodes [data-helmet-id='{hash}'] selects.
Selected(node, hash) == GetAttr(node.attrs, StampAttr) = Some(ToString(hash))

IsTitle(node) == node.tag = TitleTag

\* get_elements_by_tag_name("title").get_with_index(0): the index of the
\* first <title> at or after i, 0 when there is none.
RECURSIVE FirstTitleFrom(_, _)
FirstTitleFrom(s, i) ==
  IF i > Len(s) THEN 0
  ELSE IF IsTitle(s[i]) THEN i
  ELSE FirstTitleFrom(s, i + 1)

\* Variant: a <title> is created and appended whether or not one exists.
TitleUpdateAppend(h, title) ==
  IF title = None THEN h
  ELSE Append(h, [tag |-> TitleTag, attrs |-> <<>>, inner |-> Some(title[1])])
\* Lines 73-83: overwrite the first <title>, or create and append one.
TitleUpdate(h, title) ==
  IF title = None THEN h
  ELSE LET i == FirstTitleFrom(h, 1)
       IN  IF i > 0 THEN [h EXCEPT ![i].inner = Some(title[1])]
           ELSE Append(h, [tag |-> TitleTag, attrs |-> <<>>, inner |-> Some(title[1])])

Contains(s, x) == \E i \in 1..Len(s) : s[i] = x

\* Vec::remove at the first position of x, if any.
RemoveFirst(s, x) ==
  LET i == CHOOSE j \in 0..Len(s) :
             /\ (j = 0 => ~Contains(s, x))
             /\ (j > 0 => s[j] = x /\ \A k \in 1..(j - 1) : s[k] # x)
  IN  IF i = 0 THEN s ELSE SubSeq(s, 1, i - 1) \o SubSeq(s, i + 1, Len(s))

\* Variant: the registry is not consulted before the push.
InstallOneNoCheck(st, seed, em) ==
  LET hash == Hash(seed, em)
      el == try_into_element(em, hash)
  IN  [cache |-> Append(st.cache, hash),
       head |-> IF el = None THEN st.head ELSE Append(st.head, el[1]),
       failed |-> IF el = None THEN st.failed \cup {hash} ELSE st.failed]
\* Variant: the hash is pushed only when the element could be created.
PushAndAppendIfCreated(st, seed, em) ==
  LET hash == Hash(seed, em)
      el == try_into_element(em, hash)
  IN  IF el = None THEN st
      ELSE [cache |-> Append(st.cache, hash),
            head |-> Append(st.head, el[1]),
            failed |-> st.failed]
\* Lines 98-102: push the hash, create the element, append it.
PushAndAppend(st, seed, em) ==
  LET hash == Hash(seed, em)
      el == try_into_element(em, hash)
  IN  [cache |-> Append(st.cache, hash),
       head |-> IF el = None THEN st.head ELSE Append(st.head, el[1]),
       failed |-> IF el = None THEN st.failed \cup {hash} ELSE st.failed]
\* One iteration of Helmet's loop (lines 91-104) on st = [cache, head, failed].
InstallOne(st, seed, em) ==
  IF Contains(st.cache, Hash(seed, em)) THEN st ELSE PushAndAppend(st, seed, em)

RECURSIVE InstallAll(_, _, _)
InstallAll(st, seed, ems) ==
  IF ems = <<>> THEN st
  ELSE InstallAll(InstallOne(st, seed, Head(ems)), seed, Tail(ems))

\* Variant: an identity two mounted components declare is kept.
RemoveOneRefCounted(st, seed, em) ==
  LET hash == Hash(seed, em)
      wants(c) == /\ props[c].mounted
                  /\ props[c].children # None
                  /\ \E m \in { RootsToMaps(props[c].children[1])[i] :
                                   i \in 1..Len(RootsToMaps(props[c].children[1])) } :
                        Hash(props[c].seed, m) = hash
  IN  IF Cardinality({ c \in Comps : wants(c) }) > 1 THEN st
      ELSE [cache |-> RemoveFirst(st.cache, hash),
            head |-> SelectSeq(st.head, LAMBDA n : ~Selected(n, hash)),
            failed |-> st.failed \ {hash}]
\* Variant: every stamped node is removed, whatever its identity.
RemoveOneAllStamped(st, seed, em) ==
  LET hash == Hash(seed, em)
  IN  [cache |-> RemoveFirst(st.cache, hash),
       head |-> SelectSeq(st.head, LAMBDA n : GetAttr(n.attrs, StampAttr) = None),
       failed |-> st.failed \ {hash}]
\* Variant: drop hashes the element map under the default seed.
RemoveOneDefaultSeed(st, seed, em) ==
  LET hash == Hash(0, em)
  IN  [cache |-> RemoveFirst(st.cache, hash),
       head |-> SelectSeq(st.head, LAMBDA n : ~Selected(n, hash)),
       failed |-> st.failed \ {hash}]
\* One iteration of drop's loop (lines 127-148).
RemoveOne(st, seed, em) ==
  LET hash == Hash(seed, em)
  IN  [cache |-> RemoveFirst(st.cache, hash),
       head |-> SelectSeq(st.head, LAMBDA n : ~Selected(n, hash)),
       failed |-> st.failed \ {hash}]

RECURSIVE RemoveAll(_, _, _)
RemoveAll(st, seed, ems) ==
  IF ems = <<>> THEN st
  ELSE RemoveAll(RemoveOne(st, seed, Head(ems)), seed, Tail(ems))

RECURSIVE Hashes(_, _)
Hashes(seed, ems) ==
  IF ems = <<>> THEN <<>>
  ELSE <<Hash(seed, Head(ems))>> \o Hashes(seed, Tail(ems))

\* ------------------------------------------------------- the passes
NoProps == [mounted |-> FALSE, seed |-> 0, title |-> None, children |-> None]

St == [cache |-> init_cache, head |-> head, failed |-> failed]

Caps == {"nowindow", "nodocument", "nohead", "ok"}

Init ==
  /\ cap \in Caps
  /\ head = <<>>
  /\ init_cache = <<>>
  /\ lock = 0
  /\ props = [c \in Comps |-> NoProps]
  /\ pc = [c \in Comps |-> "idle"]
  /\ todo = [c \in Comps |-> <<>>]
  /\ moved = [c \in Comps |-> 0]
  /\ last = [op |-> "init", c |-> 0, outcome |-> "done", ids |-> <<>>, delta |-> 0]
  /\ noUnmount = TRUE
  /\ rerenders = 0
  /\ contended = 0
  /\ failed = {}

\* Variant: Helmet goes on without the head.
HelmetCapAlways(c) == TRUE
\* Lines 70-71: window()?.document()?, document.head()?
HelmetCap(c) == c = "ok"
\* Lines 111-117: window and document only.
DropCap(c) == c \in {"ok", "nohead"}

\* Variant: try_lock succeeds whoever holds the mutex.
HelmetPrologueNoMutex(p, h, lk) ==
  IF ~HelmetCap(cap) THEN [head |-> h, outcome |-> "nocap", maps |-> <<>>]
  ELSE LET h1 == TitleUpdate(h, p.title)
           ems == extract_element_maps(p.children)
       IN  IF ems = None THEN [head |-> h1, outcome |-> "nochildren", maps |-> <<>>]
           ELSE [head |-> h1, outcome |-> "locked", maps |-> ems[1]]
\* Lines 70-89 of Helmet: the capabilities, the title, the extractor, try_lock.
\* [head, outcome, maps]: outcome "locked" when the loop is to run over maps.
HelmetPrologue(p, h, lk) ==
  IF ~HelmetCap(cap) THEN [head |-> h, outcome |-> "nocap", maps |-> <<>>]
  ELSE LET h1 == TitleUpdate(h, p.title)
           ems == extract_element_maps(p.children)
       IN  IF ems = None THEN [head |-> h1, outcome |-> "nochildren", maps |-> <<>>]
           ELSE IF lk # 0 THEN [head |-> h1, outcome |-> "nolock", maps |-> <<>>]
           ELSE [head |-> h1, outcome |-> "locked", maps |-> ems[1]]

\* Lines 111-125 of drop.
DropPrologue(p, lk) ==
  IF ~DropCap(cap) THEN [outcome |-> "nocap", maps |-> <<>>]
  ELSE LET ems == extract_element_maps(p.children)
       IN  IF ems = None THEN [outcome |-> "nochildren", maps |-> <<>>]
           ELSE IF lk # 0 THEN [outcome |-> "nolock", maps |-> <<>>]
           ELSE [outcome |-> "locked", maps |-> ems[1]]

Done(outcome) == IF outcome = "locked" THEN "done" ELSE outcome

\* Variant: the guard is leaked, the mutex stays with instance c.
GuardLeaked(c) == c
\* The MutexGuard goes out of scope where the pass of instance c returns
\* (lines 106 and 149): the holder of the mutex afterwards.
GuardDropped(c) == 0

\* ------------------------------------- run-to-completion (one UI thread)
\* Helmet(cx), whole, for instance c with props p.
HelmetPass(op, c, p) ==
  LET pro == HelmetPrologue(p, head, lock)
      st == IF pro.outcome = "locked"
            THEN InstallAll([St EXCEPT !.head = pro.head], p.seed, pro.maps)
            ELSE [St EXCEPT !.head = pro.head]
      old == extract_element_maps(props[c].children)
  IN  /\ head' = st.head
      /\ init_cache' = st.cache
      /\ failed' = st.failed
      /\ props' = [props EXCEPT ![c] = p]
      /\ last' = [op |-> op, c |-> c, outcome |-> Done(pro.outcome),
                  ids |-> IF op = "mount" \/ p.children = props[c].children \/ old = None
                          THEN <<>> ELSE Hashes(props[c].seed, old[1]),
                  delta |-> Len(st.head) - Len(head)]
      /\ rerenders' = IF op = "mount" \/ p.children = props[c].children
                      THEN rerenders ELSE rerenders + 1
      /\ contended' = IF pro.outcome = "nolock" THEN contended + 1 ELSE contended
      /\ lock' = IF pro.outcome = "locked" THEN GuardDropped(c) ELSE lock
      /\ UNCHANGED <<cap, pc, todo, moved, noUnmount>>

\* The host mounts instance c with fresh props and renders it.
Mount(c) ==
  /\ ~props[c].mounted
  /\ \E seed \in Seeds, title \in Titles(c), children \in Catalogue :
       HelmetPass("mount", c, [mounted |-> TRUE, seed |-> seed,
                               title |-> title, children |-> children])

\* The host renders the mounted instance c again, its props unchanged.
Render(c) ==
  /\ props[c].mounted
  /\ HelmetPass("render", c, props[c])

\* The host renders the mounted instance c again with other children.
Rerender(c) ==
  /\ props[c].mounted
  /\ rerenders < MaxRerender
  /\ \E children \in Catalogue \ {props[c].children} :
       HelmetPass("render", c, [props[c] EXCEPT !.children = children])

\* The host discards instance c: HelmetProps::drop, whole.
Unmount(c) ==
  /\ props[c].mounted
  /\ LET p == props[c]
         pro == DropPrologue(p, lock)
         st == IF pro.outcome = "locked" THEN RemoveAll(St, p.seed, pro.maps) ELSE St
     IN  /\ head' = st.head
         /\ init_cache' = st.cache
         /\ failed' = st.failed
         /\ props' = [props EXCEPT ![c] = NoProps]
         /\ noUnmount' = (noUnmount /\ pro.outcome # "locked")
         /\ last' = [op |-> "unmount", c |-> c, outcome |-> Done(pro.outcome),
                     ids |-> Hashes(p.seed, pro.maps),
                     delta |-> Len(st.head) - Len(head)]
         /\ contended' = IF pro.outcome = "nolock" THEN contended + 1 ELSE contended
         /\ lock' = IF pro.outcome = "locked" THEN GuardDropped(c) ELSE lock
         /\ UNCHANGED <<cap, pc, todo, moved, rerenders>>

Next == \E c \in Comps : Mount(c) \/ Render(c) \/ Unmount(c)

\* The lifecycle on one UI thread: every pass runs to completion.
Spec == Init /\ [][Next]_vars

NextRerender ==
  \E c \in Comps : (rerenders = 0 /\ Mount(c)) \/ Rerender(c) \/ Unmount(c)

\* The host mounts and discards instances, renders a mounted instance again
\* with other children, and from then on only discards.
SpecRerender == Init /\ [][NextRerender]_vars

\* The nodes a declared element may have as a child, and the child lists of
\* up to two of them.
Kids ==
  { Text("css"), DynNode,
    Elem("span", <<>>, <<>>),
    Elem("span", <<>>, <<Text("css")>>),
    Elem("span", <<>>, <<DynNode>>),
    Elem("span", <<>>, <<Text("css"), Text("Helmet")>>) }
Shapes == { <<>> } \cup { <<k>> : k \in Kids } \cup { <<k1, k2>> : k1, k2 \in Kids }

\* The host mounts instance c with one style element of any of these shapes.
MountShaped(c) ==
  /\ ~props[c].mounted
  /\ \E seed \in Seeds, kids \in Shapes :
       HelmetPass("mount", c, [mounted |-> TRUE, seed |-> seed, title |-> None,
                               children |-> Some(<<Elem("style", <<>>, kids)>>)])

NextExtract == \E c \in Comps : MountShaped(c) \/ Unmount(c)

\* The lifecycle on one UI thread over declared elements of every shape.
SpecExtract == Init /\ [][NextExtract]_vars

\* ------------------------------------------ passes that may interleave
\* Helmet up to and including try_lock (lines 70-89).
HelmetEnter(op, c, p) ==
  LET pro == HelmetPrologue(p, head, lock)
  IN  /\ pc[c] = "idle"
      /\ pro.outcome = "nolock" => contended < MaxContended
      /\ contended' = IF pro.outcome = "nolock" THEN contended + 1 ELSE contended
      /\ head' = pro.head
      /\ props' = [props EXCEPT ![c] = p]
      /\ IF pro.outcome = "locked"
         THEN /\ lock' = c
              /\ pc' = [pc EXCEPT ![c] = op]
              /\ todo' = [todo EXCEPT ![c] = pro.maps]
              /\ moved' = [moved EXCEPT ![c] = Len(pro.head) - Len(head)]
         ELSE UNCHANGED <<lock, pc, todo, moved>>
      /\ last' = [op |-> op, c |-> c, outcome |-> pro.outcome, ids |-> <<>>,
                  delta |-> Len(pro.head) - Len(head)]
      /\ UNCHANGED <<cap, init_cache, failed, noUnmount, rerenders>>

MountEnter(c) ==
  /\ ~props[c].mounted
  /\ \E seed \in Seeds, title \in Titles(c), children \in Catalogue :
       HelmetEnter("mount", c, [mounted |-> TRUE, seed |-> seed,
                                title |-> title, children |-> children])

\* Variant: the loop visits the last element map left.
CurrentLast(t) == t[Len(t)]
\* element_maps.iter().for_each: the element map the next iteration visits.
Current(t) == Head(t)

\* Line 97 of one iteration of Helmet's for_each: init_cache.contains(&hash).
\* A hash found goes to the next iteration, a hash not found to the push.
HelmetCheck(c) ==
  /\ pc[c] = "mount"
  /\ todo[c] # <<>>
  /\ IF Contains(init_cache, Hash(props[c].seed, Current(todo[c])))
     THEN /\ todo' = [todo EXCEPT ![c] = Tail(todo[c])]
          /\ UNCHANGED pc
     ELSE /\ pc' = [pc EXCEPT ![c] = "push"]
          /\ UNCHANGED todo
  /\ UNCHANGED <<cap, head, init_cache, lock, props, moved, last, noUnmount,
                 rerenders, contended, failed>>

\* Lines 98-102 of the same iteration: push, try_into_element, append_child.
HelmetPush(c) ==
  /\ pc[c] = "push"
  /\ LET st == PushAndAppend(St, props[c].seed, Current(todo[c]))
     IN  /\ head' = st.head
         /\ init_cache' = st.cache
         /\ failed' = st.failed
         /\ moved' = [moved EXCEPT ![c] = @ + Len(st.head) - Len(head)]
  /\ todo' = [todo EXCEPT ![c] = Tail(todo[c])]
  /\ pc' = [pc EXCEPT ![c] = "mount"]
  /\ UNCHANGED <<cap, lock, props, last, noUnmount, rerenders, contended>>

\* Variant: the guard is leaked, the mutex stays locked.
HelmetExitKeepsLock(c) ==
  /\ pc[c] = "mount"
  /\ todo[c] = <<>>
  /\ pc' = [pc EXCEPT ![c] = "idle"]
  /\ last' = [op |-> "mount", c |-> c, outcome |-> "done", ids |-> <<>>,
              delta |-> moved[c]]
  /\ moved' = [moved EXCEPT ![c] = 0]
  /\ UNCHANGED <<cap, head, init_cache, lock, props, todo, noUnmount, rerenders,
                 contended, failed>>
\* Helmet returns (line 106): the guard is dropped.
HelmetExit(c) ==
  /\ pc[c] = "mount"
  /\ todo[c] = <<>>
  /\ lock' = GuardDropped(c)
  /\ pc' = [pc EXCEPT ![c] = "idle"]
  /\ last' = [op |-> "mount", c |-> c, outcome |-> "done", ids |-> <<>>,
              delta |-> moved[c]]
  /\ moved' = [moved EXCEPT ![c] = 0]
  /\ UNCHANGED <<cap, head, init_cache, props, todo, noUnmount, rerenders, contended, failed>>

\* drop up to and including try_lock (lines 111-125).
DropEnter(c) ==
  LET pro == DropPrologue(props[c], lock)
  IN  /\ pc[c] = "idle"
      /\ props[c].mounted
      /\ pro.outcome = "nolock" => contended < MaxContended
      /\ contended' = IF pro.outcome = "nolock" THEN contended + 1 ELSE contended
      /\ IF pro.outcome = "locked"
         THEN /\ lock' = c
              /\ pc' = [pc EXCEPT ![c] = "drop"]
              /\ todo' = [todo EXCEPT ![c] = pro.maps]
              /\ UNCHANGED props
         ELSE /\ props' = [props EXCEPT ![c] = NoProps]
              /\ UNCHANGED <<lock, pc, todo>>
      /\ last' = [op |-> "unmount", c |-> c, outcome |-> pro.outcome, ids |-> <<>>,
                  delta |-> 0]
      /\ UNCHANGED <<cap, head, init_cache, moved, failed, noUnmount, rerenders>>

\* One iteration of drop's for_each (lines 127-148).
DropStep(c) ==
  /\ pc[c] = "drop"
  /\ todo[c] # <<>>
  /\ LET st == RemoveOne(St, props[c].seed, Current(todo[c]))
     IN  /\ head' = st.head
         /\ init_cache' = st.cache
         /\ failed' = st.failed
         /\ moved' = [moved EXCEPT ![c] = @ + Len(st.head) - Len(head)]
  /\ todo' = [todo EXCEPT ![c] = Tail(todo[c])]
  /\ UNCHANGED <<cap, lock, props, pc, last, noUnmount, rerenders, contended>>

\* drop returns (line 149): the guard is dropped, the props are gone.
DropExit(c) ==
  /\ pc[c] = "drop"
  /\ todo[c] = <<>>
  /\ lock' = GuardDropped(c)
  /\ pc' = [pc EXCEPT ![c] = "idle"]
  /\ props' = [props EXCEPT ![c] = NoProps]
  /\ noUnmount' = FALSE
  /\ last' = [op |-> "unmount", c |-> c, outcome |-> "done",
              ids |-> Hashes(props[c].seed, extract_element_maps(props[c].children)[1]),
              delta |-> moved[c]]
  /\ moved' = [moved EXCEPT ![c] = 0]
  /\ UNCHANGED <<cap, head, init_cache, todo, rerenders, contended, failed>>

NextConc ==
  \E c \in Comps :
    \/ MountEnter(c) \/ HelmetCheck(c) \/ HelmetPush(c) \/ HelmetExit(c)
    \/ DropEnter(c) \/ DropStep(c) \/ DropExit(c)

\* Mount and drop passes of different instances interleaving at try_lock and
\* at every iteration of the loops.
SpecConc == Init /\ [][NextConc]_vars

\* A step of the pass instance c has entered.
PassStep(c) ==
  HelmetCheck(c) \/ HelmetPush(c) \/ HelmetExit(c) \/ DropStep(c) \/ DropExit(c)

NextConcFair ==
  \E c \in Comps :
    \/ contended = 0 /\ (MountEnter(c) \/ DropEnter(c))
    \/ PassStep(c)

\* Interleaved passes up to the first one abandoned at try_lock, every thread
\* that has entered a pass being scheduled again and again: no pass stops for
\* ever at a step it can take.
SpecConcFair ==
  Init /\ [][NextConcFair]_vars /\ \A c \in Comps : WF_vars(PassStep(c))

\* ---------------------------------------------------------- the claims
\* The element maps instance c's stored children yield, and their identities.
Descs(c) ==
  LET ems == extract_element_maps(props[c].children)
  IN  IF ems = None THEN <<>> ELSE ems[1]
IdOf(c, i) == Hash(props[c].seed, Descs(c)[i])
Ids(c) == { IdOf(c, i) : i \in 1..Len(Descs(c)) }
Range(s) == { s[i] : i \in 1..Len(s) }

\* The head nodes stamped with identity h, and their number.
Stamped(h, hash) == SelectSeq(h, LAMBDA n : Selected(n, hash))
NodesFor(hash) == Len(Stamped(head, hash))
HasStamp(n) == GetAttr(n.attrs, StampAttr) # None
TitleNodes(h) == SelectSeq(h, IsTitle)
UpdaterTitles(h) == SelectSeq(h, LAMBDA n : IsTitle(n) /\ ~HasStamp(n))
FirstTitle(h) == FirstTitleFrom(h, 1)

\* Instance a's props are dropped in this step.
Unmounts(a) == props[a].mounted /\ ~props'[a].mounted
\* Helmet ran for instance c in this step.
Renders(c) == last'.c = c /\ last'.op \in {"mount", "render"} /\ props'[c].mounted

\* C1: as long as no drop pass has run, every identity a mounted component
\* declares has at most one node in the head, and exactly one when its element
\* could be created, however many components and render passes declared it.
C1_Dedup ==
  (cap = "ok" /\ noUnmount) =>
    \A c \in Comps : props[c].mounted =>
      \A i \in 1..Len(Descs(c)) :
        /\ NodesFor(IdOf(c, i)) <= 1
        /\ (CreateElementOk(Descs(c)[i].tag) /\ IdOf(c, i) \notin failed)
             => NodesFor(IdOf(c, i)) = 1

\* Two mounted components of one seed with different children share a
\* descriptor, a repeated render pass has just run, and the head holds one node.
C1_Witness ==
  /\ cap = "ok" /\ noUnmount /\ last.op = "render" /\ last.delta = 0
  /\ \E c1, c2 \in Comps :
       /\ c1 # c2 /\ props[c1].mounted /\ props[c2].mounted
       /\ props[c1].seed = props[c2].seed
       /\ props[c1].children # props[c2].children
       /\ \E i \in 1..Len(Descs(c1)), j \in 1..Len(Descs(c2)) :
            /\ Descs(c1)[i] = Descs(c2)[j]
            /\ NodesFor(IdOf(c1, i)) = 1

\* C2: while a component that installed descriptor X is mounted, a node
\* stamped with X's identity is in the head.
C2_PresentWhileRequested ==
  cap = "ok" =>
    \A c \in Comps : props[c].mounted =>
      \A i \in 1..Len(Descs(c)) :
        (CreateElementOk(Descs(c)[i].tag) /\ IdOf(c, i) \notin failed)
          => NodesFor(IdOf(c, i)) >= 1

C4_TeardownExact ==
  [][ \A a \in Comps : Unmounts(a) =>
        /\ head' = SelectSeq(head, LAMBDA n : \A h \in Ids(a) : ~Selected(n, h))
        /\ init_cache' = SelectSeq(init_cache, LAMBDA x : x \notin Ids(a)) ]_vars

\* A drop pass has just removed nodes, and a node and a registry entry of
\* another identity are still there.
C4_Witness ==
  /\ last.op = "unmount" /\ last.outcome = "done" /\ last.delta < 0
  /\ \E i \in 1..Len(head) : HasStamp(head[i]) /\
       \A h \in Range(last.ids) : ~Selected(head[i], h)
  /\ \E x \in Range(init_cache) : x \notin Range(last.ids)

\* C5: one descriptor under two seeds has two identities and two nodes, and
\* dropping the component of one seed removes that seed's node and leaves the
\* other seed's node and registry entry.
C5_SeedsDistinct ==
  \A c1, c2 \in Comps :
    (cap = "ok" /\ props[c1].mounted /\ props[c2].mounted
       /\ props[c1].seed # props[c2].seed) =>
      \A i \in 1..Len(Descs(c1)), j \in 1..Len(Descs(c2)) :
        Descs(c1)[i] = Descs(c2)[j] =>
          /\ IdOf(c1, i) # IdOf(c2, j)
          /\ (noUnmount /\ CreateElementOk(Descs(c1)[i].tag)
                /\ IdOf(c1, i) \notin failed /\ IdOf(c2, j) \notin failed)
               => (NodesFor(IdOf(c1, i)) = 1 /\ NodesFor(IdOf(c2, j)) = 1)
C5_UnmountKeepsOtherSeed ==
  \A a, b \in Comps :
    (cap = "ok" /\ Unmounts(a) /\ b # a /\ props[b].mounted
       /\ props[a].seed # props[b].seed) =>
      \A i \in 1..Len(Descs(a)), j \in 1..Len(Descs(b)) :
        (/\ Descs(a)[i] = Descs(b)[j]
         /\ \A k \in 1..Len(Descs(a)) : k # i => IdOf(a, k) # IdOf(b, j)) =>
          /\ Stamped(head', IdOf(a, i)) = <<>>
          /\ Stamped(head', IdOf(b, j)) = Stamped(head, IdOf(b, j))
          /\ Contains(init_cache', IdOf(b, j)) = Contains(init_cache, IdOf(b, j))
C5_SeedIsolation == [](C5_SeedsDistinct) /\ [][C5_UnmountKeepsOtherSeed]_vars

\* A drop pass has just removed the node of a descriptor under one seed, and
\* the node of the same descriptor under another seed is still in the head
\* and in the registry.
C5_Witness ==
  /\ cap = "ok" /\ last.op = "unmount" /\ last.outcome = "done" /\ last.delta < 0
  /\ \E b \in Comps : props[b].mounted /\
       \E j \in 1..Len(Descs(b)), s \in Seeds \ {props[b].seed} :
         /\ Hash(s, Descs(b)[j]) \in Range(last.ids)
         /\ NodesFor(Hash(s, Descs(b)[j])) = 0
         /\ NodesFor(IdOf(b, j)) = 1
         /\ Contains(init_cache, IdOf(b, j))

\* C6: the head never holds more than one <title> element.
C6_AtMostOneTitle == Len(TitleNodes(head)) <= 1

\* C7: a Helmet pass with a title value overwrites the first <title> of the
\* head if there is one and appends a new one otherwise, so that afterwards
\* the head's first <title> reads that value and the updater has added a
\* <title> only where there was none; a pass without a title value leaves the
\* first <title>'s text alone.
C7_TitleOverwrite ==
  [][ \A c \in Comps : (cap = "ok" /\ Renders(c)) =>
        LET i == FirstTitle(head)
            j == FirstTitle(head')
        IN  IF props'[c].title = None
            THEN i > 0 => (j = i /\ head'[j].inner = head[i].inner)
            ELSE /\ j > 0
                 /\ head'[j].inner = props'[c].title
                 /\ i > 0 => (j = i /\ Len(UpdaterTitles(head')) = Len(UpdaterTitles(head)))
                 /\ i = 0 => (/\ j = Len(head) + 1
                              /\ ~HasStamp(head'[j])
                              /\ Len(UpdaterTitles(head')) = 1) ]_vars

\* A component with a title value has just been mounted over the title a
\* component mounted earlier had set: the head holds one <title>, with the
\* later text.
C7_Witness ==
  /\ cap = "ok" /\ last.op = "mount" /\ last.delta = 0
  /\ \E c \in Comps \ {last.c} :
       /\ props[c].mounted /\ props[c].title # None
       /\ props[last.c].title # None
       /\ props[c].title # props[last.c].title
  /\ Len(TitleNodes(head)) = 1
  /\ head[FirstTitle(head)].inner = props[last.c].title

\* C8: the drop pass of a component that set the title leaves the head's
\* <title> element in place, its text unchanged.
C8_TitleSurvivesUnmount ==
  [][ \A a \in Comps :
        (cap = "ok" /\ Unmounts(a) /\ props[a].title # None /\ FirstTitle(head) > 0) =>
          /\ FirstTitle(head') > 0
          /\ head'[FirstTitle(head')].inner = head[FirstTitle(head)].inner ]_vars

\* C9: a pass abandoned because the mutex is held leaves the registry and the
\* head, title included, as they were.
C9_ContentionNoChange ==
  [][ contended' # contended => (head' = head /\ init_cache' = init_cache) ]_vars

C11_InsertIfAbsentAtomic ==
  /\ \A c1, c2 \in Comps :
       (c1 # c2 /\ pc[c1] = "push" /\ pc[c2] = "push") =>
         Hash(props[c1].seed, Head(todo[c1])) # Hash(props[c2].seed, Head(todo[c2]))
  /\ \A i, j \in 1..Len(init_cache) : init_cache[i] = init_cache[j] => i = j
  /\ \A h \in Range(init_cache) : NodesFor(h) <= 1

\* The pass of one instance is in its loop and has pushed an identity and
\* appended its node; the pass of another instance declaring the same identity
\* has just been abandoned at try_lock.
C11_Witness ==
  /\ last.outcome = "nolock" /\ last.op = "mount"
  /\ \E c1 \in Comps \ {last.c} :
       /\ pc[c1] = "mount" /\ lock = c1
       /\ \E i \in 1..Len(Descs(c1)), j \in 1..Len(Descs(last.c)) :
            /\ IdOf(c1, i) = IdOf(last.c, j)
            /\ Contains(init_cache, IdOf(c1, i))
            /\ NodesFor(IdOf(c1, i)) = 1

\* C12: a Helmet pass records the identity of every descriptor it visits,
\* appends no node for a descriptor whose element cannot be created, and goes
\* on to append the node of every later descriptor that is new; an identity
\* recorded without a node stays in the registry, without a node, whatever
\* mount passes follow, until a drop pass removes it.
C12_FailedStaysRecorded ==
  \A h \in failed : Contains(init_cache, h) /\ NodesFor(h) = 0
C12_PassGoesOn ==
  \A c \in Comps :
    (cap = "ok" /\ Renders(c) /\ props'[c].children # None) =>
      LET ems == RootsToMaps(props'[c].children[1])
      IN  \A i \in 1..Len(ems) :
            LET h == Hash(props'[c].seed, ems[i])
            IN  /\ Contains(init_cache', h)
                /\ ~CreateElementOk(ems[i].tag) => Stamped(head', h) = <<>>
                /\ (CreateElementOk(ems[i].tag) /\ ~Contains(init_cache, h))
                     => Len(Stamped(head', h)) = 1
C12_CreationFailure == [](C12_FailedStaysRecorded) /\ [][C12_PassGoesOn]_vars

\* A second component has just been mounted with a descriptor whose element
\* cannot be created and which an earlier pass had recorded: its identity is
\* in the registry once, without a node, and the descriptor after it has its node.
C12_Witness ==
  /\ cap = "ok" /\ last.op = "mount" /\ last.outcome = "done" /\ last.delta = 0
  /\ \E c \in Comps \ {last.c} :
       /\ props[c].mounted
       /\ \E i \in 1..Len(Descs(c)), j \in 1..Len(Descs(last.c)) :
            /\ IdOf(c, i) = IdOf(last.c, j)
            /\ ~CreateElementOk(Descs(c)[i].tag)
            /\ IdOf(c, i) \in failed
            /\ Len(SelectSeq(init_cache, LAMBDA x : x = IdOf(c, i))) = 1
            /\ NodesFor(IdOf(c, i)) = 0
            /\ j < Len(Descs(last.c))
            /\ NodesFor(IdOf(last.c, j + 1)) = 1

\* The position, among the element maps extracted from instance c's children,
\* of the one its pass visits next.
Visiting(c) == Len(Descs(c)) - Len(todo[c]) + 1
\* Instance c's pass finishes one iteration of its loop in this step.
Iterates(c) == pc[c] # "idle" /\ todo[c] # <<>> /\ todo'[c] # todo[c]

\* C13: a pass enters its loop with the element maps in the order the
\* extractor yields them; every iteration of a Helmet pass touches the next
\* identity in that order only, appending its hash at the end of the registry
\* and its node at the end of the head; every iteration of a drop pass removes
\* the next identity in that order, from the registry and from the head, and
\* nothing else.
C13_Ordering ==
  [][ \A c \in Comps :
        /\ (pc[c] = "idle" /\ pc'[c] # "idle") =>
             todo'[c] = RootsToMaps(props'[c].children[1])
        /\ Iterates(c) =>
             LET k == Visiting(c)
                 h == IdOf(c, k)
             IN  /\ Len(todo'[c]) = Len(todo[c]) - 1
                 /\ IF pc[c] = "drop"
                    THEN /\ init_cache' = SelectSeq(init_cache, LAMBDA x : x # h)
                         /\ head' = SelectSeq(head, LAMBDA n : ~Selected(n, h))
                    ELSE /\ Contains(init_cache', h)
                         /\ \/ init_cache' = init_cache
                            \/ init_cache' = Append(init_cache, h)
                         /\ \/ head' = head
                            \/ /\ Len(head') = Len(head) + 1
                               /\ SubSeq(head', 1, Len(head)) = head
                               /\ Selected(head'[Len(head')], h)
                               /\ head'[Len(head')].tag = Descs(c)[k].tag ]_vars

\* A drop pass stands between its first and its second iteration: the first
\* identity is gone from the registry and the head, the second is still there;
\* and the nodes a Helmet pass of another instance appended stand in the head
\* in the order of its descriptors.
C13_Witness ==
  /\ \E c \in Comps :
       /\ pc[c] = "drop" /\ Len(Descs(c)) >= 2 /\ Visiting(c) = 2
       /\ ~Contains(init_cache, IdOf(c, 1)) /\ NodesFor(IdOf(c, 1)) = 0
       /\ Contains(init_cache, IdOf(c, 2)) /\ NodesFor(IdOf(c, 2)) = 1
  /\ \E b \in Comps, p, q \in 1..Len(head) :
       /\ pc[b] = "idle" /\ Len(Descs(b)) >= 2 /\ p < q
       /\ \E i, j \in 1..Len(Descs(b)) :
            i < j /\ Selected(head[p], IdOf(b, i)) /\ Selected(head[q], IdOf(b, j))

\* The nodes of h1 are all in h2, in their order.
RECURSIVE Embeds(_, _)
Embeds(h1, h2) ==
  IF h1 = <<>> THEN TRUE
  ELSE IF h2 = <<>> THEN FALSE
  ELSE IF Head(h1) = Head(h2) THEN Embeds(Tail(h1), Tail(h2))
  ELSE Embeds(h1, Tail(h2))
\* What is in the registry and the head for identity h stays in this step.
Persists(h) ==
  /\ Contains(init_cache, h) => Contains(init_cache', h)
  /\ Len(Stamped(head', h)) >= Len(Stamped(head, h))

\* C14: a render pass of a mounted component with changed children removes no
\* registry entry and no node installed from its earlier children, and they
\* stay in the registry and the head for as long as the component is mounted.
C14_PassRemovesNothing ==
  \A c \in Comps :
    (Renders(c) /\ props[c].mounted /\ props'[c].children # props[c].children) =>
      \A h \in Ids(c) : Persists(h)
C14_PersistWhileMounted ==
  (last.op = "render" /\ last.ids # <<>> /\ props'[last.c].mounted) =>
    \A h \in Range(last.ids) : Persists(h)
C14_NoRediff == [][C14_PassRemovesNothing /\ C14_PersistWhileMounted]_vars

\* The Element roots of instance c's children: Descs(c)[i] is extracted from
\* Elements(c)[i].
Elements(c) ==
  IF props[c].children = None THEN <<>>
  ELSE SelectSeq(props[c].children[1], LAMBDA n : n.kind = "Element")
\* Two declared elements that differ in the values of Dynamic attributes only.
DifferInDynamicOnly(e1, e2) ==
  /\ e1 # e2
  /\ e1.tag = e2.tag /\ e1.children = e2.children
  /\ Len(e1.attrs) = Len(e2.attrs)
  /\ \A k \in 1..Len(e1.attrs) :
       /\ e1.attrs[k].kind = e2.attrs[k].kind
       /\ e1.attrs[k].name = e2.attrs[k].name
       /\ e1.attrs[k].kind = "Static" => e1.attrs[k] = e2.attrs[k]

SoleText(children) ==
  /\ Len(children) = 1
  /\ \/ children[1].kind = "Text"
     \/ /\ children[1].kind = "Element"
        /\ Len(children[1].children) = 1
        /\ children[1].children[1].kind = "Text"
TextOf(children) ==
  IF children[1].kind = "Text" THEN children[1].text ELSE children[1].children[1].text

\* C16: the element map extracted from a declared element has an inner_html
\* only when the element's children are exactly one plain text, directly or
\* inside one single-child element, and it is then that text; for every other
\* shape of children inner_html is None.
C16_InnerContent ==
  \A c \in Comps : props[c].mounted =>
    \A i \in 1..Len(Elements(c)) :
      IF SoleText(Elements(c)[i].children)
      THEN Descs(c)[i].inner_html = Some(TextOf(Elements(c)[i].children))
      ELSE Descs(c)[i].inner_html = None

\* Instance c's pass is inside its critical section.
InPass(c) == pc[c] # "idle"

\* C17: in every interleaving of Helmet and drop passes, a pass is in progress
\* only while it holds the mutex (try_lock gave it the guard at once, or the
\* pass was abandoned: none waits), a pass in progress can always take its
\* next step, the mutex is free when no pass is in progress, and every pass
\* in progress ends.
C17_LockDiscipline ==
  /\ lock = 0 \/ lock \in Comps
  /\ \A c \in Comps : InPass(c) <=> lock = c
  /\ \A c \in Comps : InPass(c) => ENABLED PassStep(c)
C17_Terminates == \A c \in Comps : InPass(c) ~> (~InPass(c) /\ lock # c)
C17_NonBlocking == [](C17_LockDiscipline) /\ C17_Terminates

\* A drop pass has just ended after another pass had been abandoned at
\* try_lock: no pass is in progress and the mutex is free.
C17_Witness ==
  /\ contended > 0 /\ last.op = "unmount" /\ last.outcome = "done"
  /\ \A c \in Comps : ~InPass(c)
  /\ lock = 0

\* The element maps of the catalogue.
AllMaps ==
  UNION { Range(RootsToMaps(ch[1])) : ch \in Catalogue \ {None} }
\* Node n is what the materializer makes of some element map under some seed,
\* stamped with their identity (its text may have been overwritten since).
Materialized(n) ==
  \E seed \in Seeds, em \in AllMaps :
    /\ CreateElementOk(em.tag)
    /\ n.tag = em.tag
    /\ n.attrs = try_into_element(em, Hash(seed, em))[1].attrs
    /\ Selected(n, Hash(seed, em))

\* C18: every head node that carries a stamp is a materialized element map
\* whose stamp is its identity, also when the element map declares a
\* data-helmet-id of its own; every node that is not the updater's <title>
\* carries a stamp; the identity of every stamped node is in the registry; and
\* no two head nodes carry the same stamp.
C18_RegistryHeadConsistent ==
  /\ \A i \in 1..Len(head) :
       /\ (~HasStamp(head[i])) => (IsTitle(head[i]) /\ head[i].attrs = <<>>)
       /\ HasStamp(head[i]) =>
            /\ Materialized(head[i])
            /\ \E h \in Range(init_cache) : Selected(head[i], h)
  /\ \A i, j \in 1..Len(head) :
       (i # j /\ HasStamp(head[i])) =>
         GetAttr(head[i].attrs, StampAttr) # GetAttr(head[j].attrs, StampAttr)

\* The head holds the node of a <title> declared with data-helmet-id "7",
\* stamped with its identity, and a second stamped node; both identities are
\* in the registry.
C18_Witness ==
  /\ cap = "ok" /\ last.op = "mount"
  /\ \E i, j \in 1..Len(head) :
       /\ i # j /\ HasStamp(head[i]) /\ HasStamp(head[j])
       /\ IsTitle(head[i])
       /\ GetAttr(head[i].attrs, StampAttr) # Some("7")
       /\ \E h \in Range(init_cache) : Selected(head[i], h)
       /\ \E h \in Range(init_cache) : Selected(head[j], h)

\* C19: when every pass runs to completion before the next is entered, no
\* pass is in progress and the mutex is free wherever a pass can be entered,
\* so that no try_lock fails and no pass is abandoned for contention.
C19_NoContention ==
  /\ \A c \in Comps : ~InPass(c)
  /\ lock = 0
  /\ contended = 0
  /\ last.outcome # "nolock"

\* Two components were mounted one after the other and one of them has been
\* dropped: each pass found the mutex free and ran its loop.
C19_Witness ==
  /\ cap = "ok" /\ last.op = "unmount" /\ last.outcome = "done" /\ last.ids # <<>>
  /\ \E b \in Comps : props[b].mounted /\ Ids(b) # {}
  /\ init_cache # <<>>
  /\ lock = 0 /\ contended = 0

\* C20: from an empty registry and an empty head, once every component that
\* was mounted has been dropped, no pass having been abandoned and no
\* component's children having changed, the registry is empty and the head
\* holds no stamped node.
C20_Quiescence ==
  (/\ contended = 0 /\ rerenders = 0
   /\ \A c \in Comps : ~props[c].mounted /\ ~InPass(c)) =>
    /\ init_cache = <<>>
    /\ \A i \in 1..Len(head) : ~HasStamp(head[i])

\* The last mounted component has just been dropped and its nodes removed;
\* what is left in the head is the <title> the updater made.
C20_Witness ==
  /\ cap = "ok" /\ contended = 0 /\ rerenders = 0
  /\ \A c \in Comps : ~props[c].mounted
  /\ last.op = "unmount" /\ last.outcome = "done" /\ last.delta < 0
  /\ init_cache = <<>>
  /\ head # <<>> /\ \A i \in 1..Len(head) : ~HasStamp(head[i])

====
